---- MODULE Spec2Model ----
(***************************************************************************)
(* The indicator engine of market-data: the technical-indicator algorithms *)
(* (src/src/indicators/*.rs), the EnhancedMarketSeries builder and its     *)
(* calculate() orchestrator (src/src/indicators.rs), and enhance_data      *)
(* (src/src/client.rs).                                                    *)
(*                                                                         *)
(* f32 values are modelled in fixed point: the integer v stands for the    *)
(* real v / Scale.  The three non-finite values the code can produce       *)
(* (+inf, -inf, NaN) are integers outside the finite range, and the        *)
(* arithmetic helpers follow IEEE-754 on them.                             *)
(***************************************************************************)
EXTENDS Integers, Sequences, FiniteSets, TLC

(***************************************************************************)
(* Bounds of the model.                                                    *)
(***************************************************************************)
Scale == 100          \* fixed-point units per 1.0
MaxLen == 5           \* longest enumerated series
MaxPeriod == 2        \* largest enumerated period (0 is enumerated too)
MaxAsks == 1          \* longest ask list on the enumerated series
ScenarioLen == 30     \* bars of the daily AAPL series of the examples
ScenarioAsks == 3     \* longest ask list on the AAPL series
MaxRequests == 3      \* request-method calls on one publisher

(***************************************************************************)
(* f32 arithmetic.                                                         *)
(***************************************************************************)
PosInf == 1000000000
NegInf == -PosInf
NaN == PosInf + 1

IsNaN(x) == x = NaN
IsInf(x) == x = PosInf \/ x = NegInf
IsFinite(x) == ~IsNaN(x) /\ ~IsInf(x)

ToF32(n) == n * Scale

FNeg(x) == IF IsNaN(x) THEN NaN ELSE -x

FAdd(a, b) ==
    IF IsNaN(a) \/ IsNaN(b) THEN NaN
    ELSE IF IsInf(a) THEN (IF IsInf(b) /\ b # a THEN NaN ELSE a)
    ELSE IF IsInf(b) THEN b
    ELSE a + b

FSub(a, b) == FAdd(a, FNeg(b))

Sign(x) == IF x < 0 THEN -1 ELSE IF x > 0 THEN 1 ELSE 0

FMul(a, b) ==
    IF IsNaN(a) \/ IsNaN(b) THEN NaN
    ELSE IF IsInf(a) \/ IsInf(b)
         THEN (IF a = 0 \/ b = 0 THEN NaN
               ELSE IF Sign(a) = Sign(b) THEN PosInf ELSE NegInf)
    ELSE (a * b) \div Scale

FDiv(a, b) ==
    IF IsNaN(a) \/ IsNaN(b) THEN NaN
    ELSE IF IsInf(a)
         THEN (IF IsInf(b) THEN NaN
               ELSE IF Sign(a) * (IF b < 0 THEN -1 ELSE 1) > 0 THEN PosInf ELSE NegInf)
    ELSE IF IsInf(b) THEN 0
    ELSE IF b = 0
         THEN (IF a = 0 THEN NaN ELSE IF a > 0 THEN PosInf ELSE NegInf)
    ELSE (a * Scale) \div b

FAbs(x) == IF IsNaN(x) THEN NaN ELSE IF x < 0 THEN -x ELSE x

RECURSIVE ISqrt(_, _, _)
\* the largest r in lo .. hi with r * r <= v, by bisection
ISqrt(v, lo, hi) ==
    IF lo >= hi THEN lo
    ELSE IF (lo + hi + 1) \div 2 <= v \div ((lo + hi + 1) \div 2)
         THEN ISqrt(v, (lo + hi + 1) \div 2, hi)
         ELSE ISqrt(v, lo, (lo + hi + 1) \div 2 - 1)

FSqrt(x) ==
    IF IsNaN(x) \/ x < 0 THEN NaN
    ELSE IF x = PosInf THEN PosInf
    ELSE ISqrt(x * Scale, 0, x * Scale)


(***************************************************************************)
(* Results of a call: a value, or a panic; a panic is a failed assert!()   *)
(* (assertion) or another one (index out of range, arithmetic overflow,    *)
(* zero window size).                                                      *)
(***************************************************************************)
Ok(v) == [panic |-> FALSE, assertion |-> FALSE, val |-> v]
Panic == [panic |-> TRUE, assertion |-> FALSE, val |-> << >>]
AssertionFailed == [panic |-> TRUE, assertion |-> TRUE, val |-> << >>]

Zeros(k) == [j \in 1 .. k |-> 0]

\* series[i] of the code, i counted from 0
At(series, i) == series[i + 1]

RECURSIVE SumF(_)
\* Iterator::sum::<f32>() : left-to-right f32 sum
SumF(xs) ==
    IF xs = << >> THEN 0
    ELSE FAdd(SumF(SubSeq(xs, 1, Len(xs) - 1)), xs[Len(xs)])

(***************************************************************************)
(* Simple Moving Average.                                                  *)
(***************************************************************************)
\* SmaWindows dividing each window sum by period + 1
SmaWindowsDivOffByOne(series, period) ==
    [w \in 1 .. (IF Len(series) >= period THEN Len(series) - period + 1 ELSE 0) |->
        FDiv(SumF([j \in 1 .. period |-> series[w + j - 1].close]), ToF32(period + 1))]

\* series.windows(period).map(mean of close)
SmaWindows(series, period) ==
    [w \in 1 .. (IF Len(series) >= period THEN Len(series) - period + 1 ELSE 0) |->
        FDiv(SumF([j \in 1 .. period |-> series[w + j - 1].close]), ToF32(period))]

\* SmaPadded with the padding loop run period times (for _ in 1..=period)
SmaPaddedOffByOne(series, period, sma_values) ==
    IF Len(Zeros(period) \o sma_values) = Len(series)
    THEN Ok(Zeros(period) \o sma_values)
    ELSE AssertionFailed

\* the padding loop and the final assertion
SmaPadded(series, period, sma_values) ==
    IF Len(Zeros(period - 1) \o sma_values) = Len(series)
    THEN Ok(Zeros(period - 1) \o sma_values)
    ELSE AssertionFailed

calculate_sma(series, period) ==
    IF period = 0 THEN Panic                 \* windows(0) panics
    ELSE SmaPadded(series, period, SmaWindows(series, period))

(***************************************************************************)
(* Exponential Moving Average, over bars and over a slice of numbers.      *)
(***************************************************************************)
Alpha(period) == FDiv(ToF32(2), FAdd(ToF32(period), ToF32(1)))

\* EmaNext with the two weights swapped
EmaNextSwapped(alpha, item, prev) ==
    FAdd(FMul(alpha, prev), FMul(FSub(ToF32(1), alpha), item))

\* alpha * item + (1.0 - alpha) * prev
EmaNext(alpha, item, prev) ==
    FAdd(FMul(alpha, item), FMul(FSub(ToF32(1), alpha), prev))

RECURSIVE EmaLoop(_, _, _)
\* the loop over the items xs, from the ema_values pushed so far to the end;
\* ema_prev is None while ema_values is empty, else its last element
EmaLoop(xs, alpha, ema_values) ==
    IF Len(ema_values) >= Len(xs) THEN ema_values
    ELSE IF ema_values = << >> THEN EmaLoop(xs, alpha, << xs[1] >>)
    ELSE EmaLoop(xs, alpha,
                 Append(ema_values,
                        EmaNext(alpha, xs[Len(ema_values) + 1],
                                ema_values[Len(ema_values)])))

\* the final assertion
EmaChecked(n, ema_values) ==
    IF Len(ema_values) = n THEN Ok(ema_values) ELSE AssertionFailed

calculate_ema(series, period) ==
    EmaChecked(Len(series),
               EmaLoop([j \in 1 .. Len(series) |-> series[j].close],
                       Alpha(period), << >>))

calculate_ema_slice(series, period) ==
    EmaChecked(Len(series), EmaLoop(series, Alpha(period), << >>))

(***************************************************************************)
(* Relative Strength Index.                                                *)
(***************************************************************************)
PriceDiff(series, i) == FSub(At(series, i).close, At(series, i - 1).close)

\* if price_diff > 0.0 { gain_sum += price_diff } else { loss_sum += price_diff.abs() }
GainSum(gain_sum, price_diff) ==
    IF price_diff > 0 THEN FAdd(gain_sum, price_diff) ELSE gain_sum

\* LossSum that adds the negative difference itself, without abs()
LossSumSigned(loss_sum, price_diff) ==
    IF price_diff > 0 THEN loss_sum ELSE FAdd(loss_sum, price_diff)

LossSum(loss_sum, price_diff) ==
    IF price_diff > 0 THEN loss_sum ELSE FAdd(loss_sum, FAbs(price_diff))

RECURSIVE RsiInit(_, _, _)
\* the first loop, i in 1 ..= period, from the sums b and the index b.i on
RsiInit(series, period, b) ==
    IF b.i > period THEN [gain |-> b.gain, loss |-> b.loss, vals |-> << >>]
    ELSE RsiInit(series, period,
                 [gain |-> GainSum(b.gain, PriceDiff(series, b.i)),
                  loss |-> LossSum(b.loss, PriceDiff(series, b.i)),
                  i |-> b.i + 1])

\* Rs with 0.0 in place of f32::INFINITY when there is no loss
RsNoLossIsZero(avg_gain, avg_loss) ==
    IF avg_loss # 0 THEN FDiv(avg_gain, avg_loss) ELSE 0

\* relative strength
Rs(avg_gain, avg_loss) ==
    IF avg_loss # 0 THEN FDiv(avg_gain, avg_loss) ELSE PosInf

RsiValue(gain_sum, loss_sum, period) ==
    FSub(ToF32(100),
         FDiv(ToF32(100),
              FAdd(ToF32(1), Rs(FDiv(gain_sum, ToF32(period)),
                                FDiv(loss_sum, ToF32(period))))))

\* Decay that leaves the sum as it is
NoDecay(sum, period) == sum

\* gain_sum -= gain_sum / period as f32
Decay(sum, period) == FSub(sum, FDiv(sum, ToF32(period)))

\* one pass of the second loop, from the sums updated with this index's delta
RsiPush(period, gain_sum, loss_sum, rsi_values) ==
    [gain |-> Decay(gain_sum, period),
     loss |-> Decay(loss_sum, period),
     vals |-> Append(rsi_values, RsiValue(gain_sum, loss_sum, period))]

\* one pass of the second loop, at index i, from the sums and values b
RsiBody(series, period, i, b) ==
    RsiPush(period, GainSum(b.gain, PriceDiff(series, i)),
            LossSum(b.loss, PriceDiff(series, i)), b.vals)

RECURSIVE RsiLoop(_, _, _)
\* the second loop, i in period .. series.len(), from the state b on;
\* it has pushed one value per index passed, so i = period + Len(b.vals)
RsiLoop(series, period, b) ==
    IF period + Len(b.vals) >= Len(series) THEN b
    ELSE RsiLoop(series, period, RsiBody(series, period, period + Len(b.vals), b))

\* the padding loop and the final assertion
RsiPadded(series, period, rsi_values) ==
    IF Len(Zeros(period) \o rsi_values) = Len(series)
    THEN Ok(Zeros(period) \o rsi_values)
    ELSE AssertionFailed

calculate_rsi(series, period) ==
    IF period >= 1 /\ period >= Len(series) THEN Panic   \* series[i], i in 1 ..= period
    ELSE IF period = 0 /\ Len(series) > 0 THEN Panic     \* series[i - 1] with i = 0
    ELSE RsiPadded(series, period,
                   RsiLoop(series, period,
                           RsiInit(series, period,
                                   [gain |-> 0, loss |-> 0, i |-> 1])).vals)

(***************************************************************************)
(* Stochastic Oscillator.                                                  *)
(***************************************************************************)
Lower(current_low, lowest_low) ==
    IF current_low < lowest_low THEN current_low ELSE lowest_low

Higher(current_high, highest_high) ==
    IF current_high > highest_high THEN current_high ELSE highest_high

RECURSIVE LowestLow(_, _, _)
\* lowest_low after the inner loop has run j = from ..= to
LowestLow(series, from, to) ==
    IF to < from THEN PosInf
    ELSE Lower(At(series, to).low, LowestLow(series, from, to - 1))

RECURSIVE HighestHigh(_, _, _)
\* highest_high after the inner loop has run j = from ..= to
HighestHigh(series, from, to) ==
    IF to < from THEN NegInf
    ELSE Higher(At(series, to).high, HighestHigh(series, from, to - 1))

PercentKOf(closing_price, lowest_low, highest_high) ==
    IF highest_high # lowest_low
    THEN FMul(FDiv(FSub(closing_price, lowest_low),
                   FSub(highest_high, lowest_low)), ToF32(100))
    ELSE 0

\* PercentK with the inner loop run over j = i - period ..= i
PercentKWiderWindow(series, period, i) ==
    PercentKOf(At(series, i).close,
               LowestLow(series, i - period, i),
               HighestHigh(series, i - period, i))

\* PercentK with the inner loop run over j = i - period ..= i - 1, the bars
\* before the bar at i
PercentKPreviousWindow(series, period, i) ==
    PercentKOf(At(series, i).close,
               LowestLow(series, i - period, i - 1),
               HighestHigh(series, i - period, i - 1))

PercentK(series, period, i) ==
    PercentKOf(At(series, i).close,
               LowestLow(series, i - period + 1, i),
               HighestHigh(series, i - period + 1, i))

\* the padding loop and the final assertion
StochasticPadded(series, period, stochastic_values) ==
    IF Len(Zeros(period) \o stochastic_values) = Len(series)
    THEN Ok(Zeros(period) \o stochastic_values)
    ELSE AssertionFailed

\* calculate_stochastic without its early return
calculate_stochastic_no_guard(series, period) ==
    StochasticPadded(series, period,
        [j \in 1 .. Len(series) - period |->
            PercentK(series, period, period + j - 1)])

calculate_stochastic(series, period) ==
    IF Len(series) <= period THEN Ok(<< >>)
    ELSE StochasticPadded(series, period,
            [j \in 1 .. Len(series) - period |->
                PercentK(series, period, period + j - 1)])

(***************************************************************************)
(* MACD.                                                                   *)
(***************************************************************************)
EmptyTriple == << << >>, << >>, << >> >>

\* a.iter().zip(b.iter()).map(|(x, y)| x - y) : as long as the shorter one
ZipSub(a, b) ==
    [j \in 1 .. (IF Len(a) < Len(b) THEN Len(a) ELSE Len(b)) |-> FSub(a[j], b[j])]

\* the histogram and the final assertion
MacdResult(series, macd_line, signal_line) ==
    IF signal_line.panic THEN signal_line
    ELSE IF Len(series) = Len(macd_line) /\ Len(series) = Len(signal_line.val)
    THEN Ok(<< macd_line, signal_line.val, ZipSub(macd_line, signal_line.val) >>)
    ELSE AssertionFailed

\* MacdSignal with the signal line taken as the EMA of the close prices
MacdSignalOfPrice(series, signal, macd_line) ==
    MacdResult(series, macd_line, calculate_ema(series, signal))

\* the signal line: EMA over the MACD line
MacdSignal(series, signal, macd_line) ==
    MacdResult(series, macd_line, calculate_ema_slice(macd_line, signal))

\* the MACD line
MacdLine(series, signal, fast_ema, slow_ema) ==
    IF fast_ema.panic THEN fast_ema
    ELSE IF slow_ema.panic THEN slow_ema
    ELSE MacdSignal(series, signal, ZipSub(fast_ema.val, slow_ema.val))

\* calculate_macd with the guard in the order fast < slow < signal < length
calculate_macd_signal_above_slow(series, fast, slow, signal) ==
    IF Len(series) <= signal \/ fast >= slow \/ slow >= signal
    THEN Ok(EmptyTriple)
    ELSE MacdLine(series, signal, calculate_ema(series, fast), calculate_ema(series, slow))

\* calculate_macd with the guard missing its fast >= slow test
calculate_macd_no_fast_test(series, fast, slow, signal) ==
    IF Len(series) <= slow \/ signal >= slow
    THEN Ok(EmptyTriple)
    ELSE MacdLine(series, signal, calculate_ema(series, fast), calculate_ema(series, slow))

calculate_macd(series, fast, slow, signal) ==
    IF Len(series) <= slow \/ fast >= slow \/ signal >= slow
    THEN Ok(EmptyTriple)
    ELSE MacdLine(series, signal, calculate_ema(series, fast), calculate_ema(series, slow))

(***************************************************************************)
(* Bollinger Bands.                                                        *)
(***************************************************************************)
TypicalPrice(s) == FDiv(FAdd(FAdd(s.high, s.low), s.close), ToF32(3))

\* powi(2)
Square(x) == FMul(x, x)

\* the sum of squares over series[i - period + 1 ..= i]
SumSquares(series, period, i, typical_price) ==
    SumF([j \in 1 .. period |->
            Square(FSub(TypicalPrice(At(series, i - period + j)), typical_price))])

StdDeviation(series, period, i) ==
    FSqrt(FDiv(SumSquares(series, period, i, TypicalPrice(At(series, i))),
               ToF32(period)))

\* VecDeque::back().unwrap_or(&0.0)
BackOr0(q) == IF q = << >> THEN 0 ELSE q[Len(q)]

\* UpperBand around the middle band's value at the index itself
UpperBandAtIndex(series, period, std_dev, middle_band_values) ==
    [j \in 1 .. Len(series) - period |->
        FAdd(middle_band_values[period + j],
             FMul(ToF32(std_dev), StdDeviation(series, period, period + j - 1)))]

UpperBand(series, period, std_dev, middle_band_values) ==
    [j \in 1 .. Len(series) - period |->
        FAdd(BackOr0(middle_band_values),
             FMul(ToF32(std_dev), StdDeviation(series, period, period + j - 1)))]

LowerBand(series, period, std_dev, middle_band_values) ==
    [j \in 1 .. Len(series) - period |->
        FSub(BackOr0(middle_band_values),
             FMul(ToF32(std_dev), StdDeviation(series, period, period + j - 1)))]

\* the padding loop and the final assertion
BollingerPadded(series, period, upper, middle_band_values, lower) ==
    IF Len(series) = Len(Zeros(period) \o upper)
       /\ Len(series) = Len(Zeros(period) \o lower)
    THEN Ok(<< Zeros(period) \o upper, middle_band_values, Zeros(period) \o lower >>)
    ELSE AssertionFailed

\* BollingerBands with the middle band padded like the other two
BollingerBandsPaddedMiddle(series, period, std_dev, middle) ==
    IF middle.panic THEN middle
    ELSE BollingerPadded(series, period,
                         UpperBand(series, period, std_dev, middle.val),
                         Zeros(period) \o SubSeq(middle.val, period + 1, Len(series)),
                         LowerBand(series, period, std_dev, middle.val))

BollingerBands(series, period, std_dev, middle) ==
    IF middle.panic THEN middle
    ELSE BollingerPadded(series, period,
                         UpperBand(series, period, std_dev, middle.val),
                         middle.val,
                         LowerBand(series, period, std_dev, middle.val))

calculate_bollinger_bands(series, period, std_dev) ==
    IF Len(series) <= period THEN Ok(EmptyTriple)
    ELSE BollingerBands(series, period, std_dev, calculate_ema(series, period))

(***************************************************************************)
(* The series handed over by the data-retrieval side.                      *)
(***************************************************************************)
Bar(date, close, high, low) ==
    [date |-> date, open |-> close, close |-> close, high |-> high, low |-> low,
     volume |-> ToF32(1)]

Shapes == {"rising", "zigzag", "flat"}

ShapeBar(shape, i) ==
    IF shape = "rising" THEN Bar(i, ToF32(i), ToF32(i + 1), ToF32(i - 1))
    ELSE IF shape = "zigzag"
         THEN (IF i % 2 = 1 THEN Bar(i, ToF32(3), ToF32(4), ToF32(2))
               ELSE Bar(i, ToF32(1), ToF32(3), ToF32(1)))
    ELSE Bar(i, ToF32(2), ToF32(2), ToF32(2))

ShapeSeries(shape, n) == [i \in 1 .. n |-> ShapeBar(shape, i)]

\* the daily AAPL series of the end-to-end scenario
ScenarioBar(i) ==
    LET close == ToF32(100) + ((i * 7) % 11) * Scale - ((i * 3) % 5) * (Scale \div 4)
    IN  Bar(i, close, close + ToF32(1), close - ToF32(2))

ScenarioSeries == [i \in 1 .. ScenarioLen |-> ScenarioBar(i)]

MarketSeriesSet ==
    {[symbol |-> "GOOGL", interval |-> "Min5", data |-> ShapeSeries(sh, n)] :
        sh \in Shapes, n \in 0 .. MaxLen}
    \cup {[symbol |-> "AAPL", interval |-> "Daily", data |-> ScenarioSeries]}

(***************************************************************************)
(* Asks, labels and the Result Store.                                      *)
(***************************************************************************)
Sma(period) == [kind |-> "Sma", period |-> period]
Ema(period) == [kind |-> "Ema", period |-> period]
Rsi(period) == [kind |-> "Rsi", period |-> period]
Stochastic(period) == [kind |-> "Stochastic", period |-> period]
Macd(fast, slow, signal) ==
    [kind |-> "Macd", fast |-> fast, slow |-> slow, signal |-> signal]
Bb(period, std_dev) == [kind |-> "Bb", period |-> period, std_dev |-> std_dev]

\* keys that leave the parameters of the ask out
LabelWithoutParameters(ask) ==
    IF ask.kind = "Sma" THEN "SMA"
    ELSE IF ask.kind = "Ema" THEN "EMA"
    ELSE IF ask.kind = "Rsi" THEN "RSI"
    ELSE IF ask.kind = "Stochastic" THEN "STO"
    ELSE IF ask.kind = "Macd" THEN "MACD"
    ELSE "BB"

\* the format!() keys of calculate()
Label(ask) ==
    IF ask.kind = "Sma" THEN "SMA " \o ToString(ask.period)
    ELSE IF ask.kind = "Ema" THEN "EMA " \o ToString(ask.period)
    ELSE IF ask.kind = "Rsi" THEN "RSI " \o ToString(ask.period)
    ELSE IF ask.kind = "Stochastic" THEN "STO " \o ToString(ask.period)
    ELSE IF ask.kind = "Macd"
         THEN "MACD (" \o ToString(ask.fast) \o ", " \o ToString(ask.slow)
              \o ", " \o ToString(ask.signal) \o ")"
    ELSE "BB (" \o ToString(ask.period) \o ", " \o ToString(ask.std_dev) \o ")"

EmptyMap == [k \in {} |-> << >>]

\* Indicators::default()
DefaultIndicators ==
    [sma |-> EmptyMap, ema |-> EmptyMap, rsi |-> EmptyMap,
     stochastic |-> EmptyMap, macd |-> EmptyMap, bb |-> EmptyMap]

\* an insert that extends the sequence already stored under the key
InsertAccumulating(map, key, value) ==
    [k \in DOMAIN map \cup {key} |->
        IF k # key THEN map[k]
        ELSE IF key \in DOMAIN map THEN map[k] \o value
        ELSE value]

\* HashMap::insert
Insert(map, key, value) ==
    [k \in DOMAIN map \cup {key} |-> IF k = key THEN value ELSE map[k]]

\* the algorithm an ask is dispatched to
Dispatch(series, ask) ==
    IF ask.kind = "Sma" THEN calculate_sma(series, ask.period)
    ELSE IF ask.kind = "Ema" THEN calculate_ema(series, ask.period)
    ELSE IF ask.kind = "Rsi" THEN calculate_rsi(series, ask.period)
    ELSE IF ask.kind = "Stochastic" THEN calculate_stochastic(series, ask.period)
    ELSE IF ask.kind = "Macd"
         THEN calculate_macd(series, ask.fast, ask.slow, ask.signal)
    ELSE calculate_bollinger_bands(series, ask.period, ask.std_dev)

\* Field with the Ema arm writing to self.indicators.sma
FieldEmaIntoSma(ask) ==
    IF ask.kind = "Sma" THEN "sma"
    ELSE IF ask.kind = "Ema" THEN "sma"
    ELSE IF ask.kind = "Rsi" THEN "rsi"
    ELSE IF ask.kind = "Stochastic" THEN "stochastic"
    ELSE IF ask.kind = "Macd" THEN "macd"
    ELSE "bb"

\* the map of the Result Store an ask's result goes to
Field(ask) ==
    IF ask.kind = "Sma" THEN "sma"
    ELSE IF ask.kind = "Ema" THEN "ema"
    ELSE IF ask.kind = "Rsi" THEN "rsi"
    ELSE IF ask.kind = "Stochastic" THEN "stochastic"
    ELSE IF ask.kind = "Macd" THEN "macd"
    ELSE "bb"

\* the insert of one arm of the match in calculate(), r what the algorithm returned
InsertResult(ask, ind, r) ==
    IF r.panic THEN [panic |-> TRUE, ind |-> ind]
    ELSE [panic |-> FALSE,
          ind |-> [ind EXCEPT ![Field(ask)] = Insert(@, Label(ask), r.val)]]

\* one arm of the match in calculate()
MatchArm(series, ask, ind) == InsertResult(ask, ind, Dispatch(series, ask))

\* one pass of the loop of calculate(), from the state b of the loop
CalcBody(ask, b, a) ==
    [panic |-> a.panic, ind |-> a.ind, visited |-> Append(b.visited, ask)]

RECURSIVE CalcLoop(_, _, _)
\* the loop of calculate() over ask_list, from the state b on; it has
\* visited Len(b.visited) asks
CalcLoop(series, ask_list, b) ==
    IF b.panic \/ Len(b.visited) >= Len(ask_list) THEN b
    ELSE CalcLoop(series, ask_list,
                  CalcBody(ask_list[Len(b.visited) + 1], b,
                           MatchArm(series, ask_list[Len(b.visited) + 1], b.ind)))

\* the result of the loop of calculate(): the store, whether it panicked, the
\* asks it dispatched
RunAsks(series, ask_list, ind) ==
    CalcLoop(series, ask_list, [panic |-> FALSE, ind |-> ind, visited |-> << >>])

(***************************************************************************)
(* Publishers: the structs behind MarketClient.site.  A request, an        *)
(* endpoint and a downloaded item carry, besides what the code stores, the *)
(* field asked: the Interval of the call the item descends from (None for  *)
(* AlphaVantage and Iex calls that take none).  The code has no such       *)
(* field; it is kept to tell which request produced which series.          *)
(***************************************************************************)
\* enum Interval
Intervals ==
    {"Min1", "Min5", "Min15", "Min30", "Hour1", "Hour2", "Hour4",
     "Daily", "Weekly", "Monthly"}

\* enum AlphaInterval
AlphaIntervals == {"Min1", "Min5", "Min15", "Min30", "Min60"}

\* the publishers re-exported by lib.rs
Publishers == {"AlphaVantage", "Iex", "Twelvedata", "Polygon", "YahooFin"}

\* the symbols of the examples
Symbols == {"GOOGL", "MSFT"}

\* a match on an Interval: some arm before the wildcard has this pattern
HasArm(arms, i) == \E k \in DOMAIN arms : arms[k][1] = i

\* the value of the first arm with this pattern (later arms with the same
\* pattern are unreachable)
FirstArm(arms, i) ==
    arms[CHOOSE k \in DOMAIN arms :
            arms[k][1] = i /\ \A j \in 1 .. k - 1 : arms[j][1] # i][2]

\* impl FromStr for Interval, impl From<String> for Interval
IntervalFrom(s) ==
    IF s = "1min" THEN "Min1"
    ELSE IF s = "5min" THEN "Min5"
    ELSE IF s = "15min" THEN "Min15"
    ELSE IF s = "30min" THEN "Min30"
    ELSE IF s = "60min" THEN "Hour1"
    ELSE IF s = "1h" THEN "Hour1"
    ELSE IF s = "2h" THEN "Hour2"
    ELSE IF s = "4h" THEN "Hour4"
    ELSE IF s = "1day" THEN "Daily"
    ELSE IF s = "1week" THEN "Weekly"
    ELSE IF s = "1month" THEN "Monthly"
    ELSE "Daily"

\* X::new(), X { ..Default::default() }
NewSite(kind) ==
    IF kind = "AlphaVantage"
    THEN [kind |-> kind, requests |-> << >>, endpoints |-> << >>,
          data_intraday |-> << >>, data_daily |-> << >>, data_wm |-> << >>]
    ELSE IF kind = "Polygon"
    THEN [kind |-> kind, requests |-> << >>, endpoints |-> << >>, data |-> << >>,
          interval |-> "Daily"]
    ELSE IF kind = "YahooFin"
    THEN [kind |-> kind, requests |-> << >>, endpoints |-> << >>, data |-> << >>,
          interval |-> << >>]
    ELSE [kind |-> kind, requests |-> << >>, endpoints |-> << >>, data |-> << >>]

\* what a request method returns, and the publisher it leaves
Returns(self, ret) == [self |-> self, ret |-> ret]

\* the arms of the match in Twelvedata::intraday_series, in source order
TwelvedataArms ==
    << << "Min1", "1min" >>, << "Min5", "5min" >>, << "Min15", "15min" >>,
       << "Min30", "30min" >>, << "Hour1", "1h" >>, << "Hour1", "2h" >>,
       << "Hour1", "4h" >> >>

\* TDRequest
TDRequest(symbol, interval, asked) ==
    [symbol |-> symbol, interval |-> interval, asked |-> asked]

Twelvedata_intraday_series(self, symbol, interval) ==
    IF HasArm(TwelvedataArms, interval)
    THEN Returns([self EXCEPT !.requests =
                     Append(@, TDRequest(symbol, FirstArm(TwelvedataArms, interval),
                                         interval))],
                 "Ok")
    ELSE Returns(self, "UnsuportedInterval")

\* Twelvedata::daily_series, weekly_series, monthly_series
Twelvedata_series(self, symbol, interval, asked) ==
    Returns([self EXCEPT !.requests = Append(@, TDRequest(symbol, interval, asked))],
            "Ok")

\* the arms of the match in YahooFin::intraday_series
YahooArms ==
    << << "Min1", "1m" >>, << "Min5", "5m" >>, << "Min15", "15m" >>,
       << "Min30", "30m" >>, << "Hour1", "1h" >> >>

\* YahooRequest
YahooRequest(symbol, interval, asked) ==
    [symbol |-> symbol, interval |-> interval, asked |-> asked]

\* the interval is recorded before the match can fail
YahooFin_intraday_series(self, symbol, interval) ==
    IF HasArm(YahooArms, interval)
    THEN Returns([self EXCEPT
                     !.interval = Append(@, interval),
                     !.requests =
                         Append(@, YahooRequest(symbol, FirstArm(YahooArms, interval),
                                                interval))],
                 "Ok")
    ELSE Returns([self EXCEPT !.interval = Append(@, interval)], "UnsuportedInterval")

\* the interval string YahooFin::daily_series, weekly_series and
\* monthly_series queue
YahooString(asked) ==
    IF asked = "Daily" THEN "1d" ELSE IF asked = "Weekly" THEN "1wk" ELSE "1m"

\* YahooFin::daily_series, weekly_series, monthly_series
YahooFin_series(self, symbol, asked) ==
    Returns([self EXCEPT
                !.interval = Append(@, asked),
                !.requests = Append(@, YahooRequest(symbol, YahooString(asked), asked))],
            "Ok")

\* the arms of the match in Polygon::intraday_series: (timespan, multiplier)
PolygonArms ==
    << << "Min1", << "minute", 1 >> >>, << "Min5", << "minute", 5 >> >>,
       << "Min15", << "minute", 15 >> >>, << "Min30", << "minute", 30 >> >>,
       << "Hour1", << "hour", 1 >> >>, << "Hour2", << "hour", 2 >> >>,
       << "Hour4", << "hour", 4 >> >> >>

\* PolygonRequest
PolygonRequest(symbol, span, asked) ==
    [symbol |-> symbol, timespan |-> span[1], multiplier |-> span[2], asked |-> asked]

Polygon_intraday_series(self, symbol, interval) ==
    IF HasArm(PolygonArms, interval)
    THEN Returns([self EXCEPT
                     !.interval = interval,
                     !.requests =
                         Append(@, PolygonRequest(symbol, FirstArm(PolygonArms, interval),
                                                  interval))],
                 "Ok")
    ELSE Returns(self, "UnsuportedInterval")

\* the timespan Polygon::daily_series, weekly_series and monthly_series queue
PolygonSpan(asked) ==
    IF asked = "Daily" THEN << "day", 1 >>
    ELSE IF asked = "Weekly" THEN << "week", 1 >>
    ELSE << "month", 1 >>

\* Polygon::daily_series, weekly_series, monthly_series
Polygon_series(self, symbol, asked) ==
    Returns([self EXCEPT
                !.interval = asked,
                !.requests = Append(@, PolygonRequest(symbol, PolygonSpan(asked), asked))],
            "Ok")

\* AVRequest
AVRequest(symbol, function, interval) ==
    [symbol |-> symbol, function |-> function, interval |-> interval, asked |-> "None"]

\* AlphaVantage::intraday_series, daily_series, weekly_series, monthly_series
AlphaVantage_series(self, symbol, function, interval) ==
    Returns([self EXCEPT !.requests = Append(@, AVRequest(symbol, function, interval))],
            "Ok")

\* IexRequest
IexRequest(symbol) == [symbol |-> symbol, range |-> "2y", asked |-> "None"]

\* Iex::daily_series
Iex_daily_series(self, symbol) ==
    Returns([self EXCEPT !.requests = Append(@, IexRequest(symbol))], "Ok")

\* the request method intraday_series of the publisher self
IntradaySeries(self, symbol, interval) ==
    IF self.kind = "Twelvedata" THEN Twelvedata_intraday_series(self, symbol, interval)
    ELSE IF self.kind = "YahooFin" THEN YahooFin_intraday_series(self, symbol, interval)
    ELSE IF self.kind = "Polygon" THEN Polygon_intraday_series(self, symbol, interval)
    ELSE AlphaVantage_series(self, symbol, "TIME_SERIES_INTRADAY", interval)

\* the intervals intraday_series of a publisher can be called with
IntradayArguments(kind) == IF kind = "AlphaVantage" THEN AlphaIntervals ELSE Intervals

\* impl ToString for Function, of the functions daily_series, weekly_series
\* and monthly_series queue
AlphaFunction(asked) ==
    IF asked = "Daily" THEN "TIME_SERIES_DAILY"
    ELSE IF asked = "Weekly" THEN "TIME_SERIES_WEEKLY"
    ELSE "TIME_SERIES_MONTHLY"

\* the interval string Twelvedata::daily_series, weekly_series and
\* monthly_series queue
TwelvedataString(asked) ==
    IF asked = "Daily" THEN "1day"
    ELSE IF asked = "Weekly" THEN "1week"
    ELSE "1month"

\* the request methods daily_series, weekly_series, monthly_series of the
\* publisher self
PeriodSeries(self, symbol, asked) ==
    IF self.kind = "Twelvedata"
    THEN Twelvedata_series(self, symbol, TwelvedataString(asked), asked)
    ELSE IF self.kind = "YahooFin" THEN YahooFin_series(self, symbol, asked)
    ELSE IF self.kind = "Polygon" THEN Polygon_series(self, symbol, asked)
    ELSE IF self.kind = "AlphaVantage"
    THEN AlphaVantage_series(self, symbol, AlphaFunction(asked), "None")
    ELSE Iex_daily_series(self, symbol)

\* impl ToString for AlphaInterval
AlphaString(interval) ==
    IF interval = "Min1" THEN "1min"
    ELSE IF interval = "Min5" THEN "5min"
    ELSE IF interval = "Min15" THEN "15min"
    ELSE IF interval = "Min30" THEN "30min"
    ELSE "60min"

\* the URL create_endpoint builds for one request (after the base URL, without
\* the output size, the range and the token), with the request it is built from
Endpoint(kind, request) ==
    [url |->
        IF kind = "Twelvedata"
        THEN "?symbol=" \o request.symbol \o "&interval=" \o request.interval
        ELSE IF kind = "YahooFin"
        THEN request.symbol \o "?metrics=high&interval=" \o request.interval
        ELSE IF kind = "Polygon"
        THEN request.symbol \o "/range/" \o ToString(request.multiplier) \o "/"
             \o request.timespan
        ELSE IF kind = "Iex"
        THEN request.symbol \o "/chart/" \o request.range
        ELSE IF request.function = "TIME_SERIES_INTRADAY"
        THEN "query?function=" \o request.function \o "&symbol=" \o request.symbol
             \o "&interval=" \o AlphaString(request.interval)
        ELSE "query?function=" \o request.function \o "&symbol=" \o request.symbol,
     request |-> request]

\* self.requests.iter().map(..).collect()
Endpoints(kind, requests) == [k \in DOMAIN requests |-> Endpoint(kind, requests[k])]

\* Publisher::create_endpoint: AlphaVantage keeps its requests for get_data
CreateEndpoint(self) ==
    IF self.kind = "AlphaVantage"
    THEN [self EXCEPT !.endpoints = Endpoints(self.kind, self.requests)]
    ELSE [self EXCEPT !.endpoints = Endpoints(self.kind, self.requests),
                      !.requests = << >>]

\* the interval string a response repeats in its meta data
MetaInterval(kind, request) ==
    IF kind = "Twelvedata" THEN request.interval
    ELSE IF kind = "AlphaVantage" /\ request.function = "TIME_SERIES_INTRADAY"
    THEN AlphaString(request.interval)
    ELSE "None"

\* the parsed body of the response to one endpoint: the symbol and the
\* interval string its meta data repeat, and whether the body is one
\* transform_data rejects (an error status, a field that does not parse)
Prices(kind, endpoint, valid) ==
    [symbol |-> endpoint.request.symbol,
     interval |-> MetaInterval(kind, endpoint.request),
     valid |-> valid,
     asked |-> endpoint.request.asked]

\* the bodies get_data has parsed before the endpoint at index count + 1, the
\* one of the endpoint at index bad being invalid
Downloaded(kind, endpoints, count, bad) ==
    [k \in 1 .. count |-> Prices(kind, endpoints[k], k # bad)]

\* the indices k <= count of the AlphaVantage requests of the functions fs
Routed(requests, count, fs) == {k \in 1 .. count : requests[k].function \in fs}

RECURSIVE Pick(_, _, _)
\* the items of q at the indices of S, in the order of q, from index k on
Pick(q, S, k) ==
    IF k > Len(q) THEN << >>
    ELSE IF k \in S THEN << q[k] >> \o Pick(q, S, k + 1)
    ELSE Pick(q, S, k + 1)

\* the loop of get_data over the first count endpoints: every parsed body is
\* pushed to the data it belongs to
Pushed(self, count, bad) ==
    IF self.kind = "AlphaVantage"
    THEN [self EXCEPT
             !.data_intraday =
                 @ \o Pick(Downloaded(self.kind, self.endpoints, count, bad),
                           Routed(self.requests, count, {"TIME_SERIES_INTRADAY"}), 1),
             !.data_daily =
                 @ \o Pick(Downloaded(self.kind, self.endpoints, count, bad),
                           Routed(self.requests, count, {"TIME_SERIES_DAILY"}), 1),
             !.data_wm =
                 @ \o Pick(Downloaded(self.kind, self.endpoints, count, bad),
                           Routed(self.requests, count,
                                  {"TIME_SERIES_WEEKLY", "TIME_SERIES_MONTHLY"}), 1)]
    ELSE [self EXCEPT !.data = @ \o Downloaded(self.kind, self.endpoints, count, bad)]

\* the end of a get_data that downloaded every endpoint
Cleared(self) ==
    IF self.kind = "AlphaVantage"
    THEN [self EXCEPT !.requests = << >>, !.endpoints = << >>]
    ELSE [self EXCEPT !.endpoints = << >>]

\* Publisher::get_data: the download of the endpoint at index failed fails
\* and get_data returns the error at once; failed = 0 when none fails
GetData(self, failed, bad) ==
    IF failed = 0
    THEN Returns(Cleared(Pushed(self, Len(self.endpoints), bad)), "Ok")
    ELSE Returns(Pushed(self, failed - 1, bad), "RetriveDataError")

\* Ok(MarketSeries { symbol, interval, data })
OkSeries(symbol, interval, asked) ==
    [ok |-> TRUE, symbol |-> symbol, interval |-> interval, asked |-> asked]

\* Err(MarketError::DownloadedData(..)), Err(MarketError::ParsingError(..))
ErrSeries(error) == [ok |-> FALSE, error |-> error]

\* what transform_data pushes for one downloaded item: Twelvedata and Polygon
\* one result; YahooFin one per chart.error and per chart.result; AlphaVantage
\* and Iex the error and then the series of the bars parsed before it
Transformed(kind, data, interval) ==
    IF kind \in {"Twelvedata", "Polygon", "YahooFin"}
    THEN (IF data.valid THEN << OkSeries(data.symbol, interval, data.asked) >>
          ELSE << ErrSeries("DownloadedData") >>)
    ELSE (IF data.valid THEN << OkSeries(data.symbol, interval, data.asked) >>
          ELSE << ErrSeries("ParsingError"),
                  OkSeries(data.symbol, interval, data.asked) >>)

\* the interval transform_data gives the series of the item at index i
SeriesInterval(self, data, i) ==
    IF self.kind = "Twelvedata" THEN IntervalFrom(data.interval)
    ELSE IF self.kind = "Polygon" THEN self.interval
    ELSE IF self.kind = "YahooFin" THEN self.interval[i]
    ELSE IF self.kind = "Iex" THEN "Daily"
    ELSE IF data.interval # "None" THEN data.interval
    ELSE "not_implemented"

RECURSIVE TransformLoop(_, _, _)
\* the loop of transform_data over the items of data from index i on
TransformLoop(self, data, i) ==
    IF i > Len(data) THEN << >>
    ELSE Transformed(self.kind, data[i], SeriesInterval(self, data[i], i))
         \o TransformLoop(self, data, i + 1)

\* Publisher::transform_data: Iex keeps its data
TransformData(self) ==
    IF self.kind = "AlphaVantage"
    THEN Returns([self EXCEPT !.data_intraday = << >>, !.data_daily = << >>,
                              !.data_wm = << >>],
                 TransformLoop(self, self.data_intraday, 1)
                 \o TransformLoop(self, self.data_daily, 1)
                 \o TransformLoop(self, self.data_wm, 1))
    ELSE IF self.kind = "Iex" THEN Returns(self, TransformLoop(self, self.data, 1))
    ELSE Returns([self EXCEPT !.data = << >>], TransformLoop(self, self.data, 1))

(***************************************************************************)
(* State: the fields of one EnhancedMarketSeries value, where its owner is *)
(* in the builder protocol (pc), the builder calls the owner has made, in  *)
(* call order (calls), and the asks the last calculate() dispatched, in    *)
(* dispatch order (visited).                                               *)
(*   pc = "fresh"       enhance_data and with_* calls only                 *)
(*   pc = "calculated"  the last call was a calculate() that returned      *)
(*   pc = "rebuilding"  with_* calls after a calculate() that returned     *)
(*   pc = "panicked"    a calculate() unwound: the value is gone           *)
(* And the download pipeline: the publisher a MarketClient holds (site),   *)
(* what the last call on it returned (returned: the status, and the        *)
(* results of a transform_data), the last call and its arguments           *)
(* (invoked), how many request methods have been called (queued) and how   *)
(* many of these calls returned an error (rejected).                       *)
(* Spec is the engine on one series, with the pipeline idle; PubSpec is    *)
(* the pipeline of one publisher, with the engine idle.                    *)
(***************************************************************************)
VARIABLES symbol, interval, series, asks, indicators, pc, calls, visited,
          site, returned, invoked, queued, rejected

vars ==
    << symbol, interval, series, asks, indicators, pc, calls, visited,
       site, returned, invoked, queued, rejected >>

engine_vars == << symbol, interval, series, asks, indicators, pc, calls, visited >>

pipeline_vars == << site, returned, invoked, queued, rejected >>

\* a publisher just constructed, no call made on it yet
NewPipeline(kind) ==
    /\ site = NewSite(kind)
    /\ returned = [status |-> "Ok", series |-> << >>]
    /\ invoked = [op |-> "new", symbol |-> "None", interval |-> "None"]
    /\ queued = 0
    /\ rejected = 0

\* MarketSeries::enhance_data
enhance_data(ms) ==
    [symbol |-> ms.symbol, interval |-> ms.interval, series |-> ms.data,
     asks |-> << >>, indicators |-> DefaultIndicators]

Init ==
    \E ms \in MarketSeriesSet :
        LET e == enhance_data(ms)
        IN  /\ symbol = e.symbol
            /\ interval = e.interval
            /\ series = e.series
            /\ asks = e.asks
            /\ indicators = e.indicators
            /\ pc = "fresh"
            /\ calls = << >>
            /\ visited = << >>
            /\ NewPipeline("Twelvedata")

IsScenario == symbol = "AAPL"

\* The parameters the builder calls are enumerated over: on the AAPL series
\* the parameters the examples use (src/examples/series_massive.rs,
\* src/examples/series_alphavantage.rs), on the other series
\* every period up to MaxPeriod, with a MACD signal period just below and
\* just above the slow period.
SmaPeriods == IF IsScenario THEN {10} ELSE 0 .. MaxPeriod
EmaPeriods == IF IsScenario THEN {20, 6} ELSE 0 .. MaxPeriod
RsiPeriods == IF IsScenario THEN {14} ELSE 0 .. MaxPeriod
StoPeriods == IF IsScenario THEN {} ELSE 0 .. MaxPeriod
MacdParams ==
    IF IsScenario THEN {<< 12, 26, 9 >>}
    ELSE {<< fast, slow, signal >> :
            fast \in 1 .. MaxPeriod, slow \in 1 .. MaxPeriod,
            signal \in 0 .. MaxPeriod + 1}
         \ {t \in (1 .. MaxPeriod) \X (1 .. MaxPeriod) \X (0 .. MaxPeriod + 1) :
                t[3] # t[2] - 1 /\ t[3] # t[2] + 1}
BbParams ==
    IF IsScenario THEN {} ELSE (0 .. MaxPeriod) \X {0, 2}

AskLimit == IF IsScenario THEN ScenarioAsks ELSE MaxAsks

\* a builder call that drops an ask whose first parameter is 0
PushValidated(call, ask) ==
    /\ pc # "panicked"
    /\ Len(asks) < AskLimit
    /\ asks' = IF call[2][1] = 0 THEN asks ELSE Append(asks, ask)
    /\ pc' = IF pc = "fresh" THEN "fresh" ELSE "rebuilding"
    /\ calls' = Append(calls, call)
    /\ UNCHANGED << symbol, interval, series, indicators, visited >>
    /\ UNCHANGED pipeline_vars

\* a builder call that computes its ask at once
PushEager(call, ask) ==
    /\ pc # "panicked"
    /\ Len(asks) < AskLimit
    /\ asks' = Append(asks, ask)
    /\ pc' = IF pc = "fresh" THEN "fresh" ELSE "rebuilding"
    /\ calls' = Append(calls, call)
    /\ indicators' = RunAsks(series, << ask >>, indicators).ind
    /\ UNCHANGED << symbol, interval, series, visited >>
    /\ UNCHANGED pipeline_vars

\* a builder call that starts over from an empty Result Store
PushResetting(call, ask) ==
    /\ pc # "panicked"
    /\ Len(asks) < AskLimit
    /\ asks' = Append(asks, ask)
    /\ pc' = IF pc = "fresh" THEN "fresh" ELSE "rebuilding"
    /\ calls' = Append(calls, call)
    /\ indicators' = DefaultIndicators
    /\ UNCHANGED << symbol, interval, series, visited >>
    /\ UNCHANGED pipeline_vars

\* the body of a builder call: self.asks.push(ask); self
Push(call, ask) ==
    /\ pc # "panicked"
    /\ Len(asks) < AskLimit
    /\ asks' = Append(asks, ask)
    /\ pc' = IF pc = "fresh" THEN "fresh" ELSE "rebuilding"
    /\ calls' = Append(calls, call)
    /\ UNCHANGED << symbol, interval, series, indicators, visited >>
    /\ UNCHANGED pipeline_vars

with_sma ==
    \E period \in SmaPeriods : Push(<< "with_sma", << period >> >>, Sma(period))

with_ema ==
    \E period \in EmaPeriods : Push(<< "with_ema", << period >> >>, Ema(period))

with_rsi ==
    \E period \in RsiPeriods : Push(<< "with_rsi", << period >> >>, Rsi(period))

with_stochastic ==
    \E period \in StoPeriods :
        Push(<< "with_stochastic", << period >> >>, Stochastic(period))

with_macd ==
    \E p \in MacdParams : Push(<< "with_macd", p >>, Macd(p[1], p[2], p[3]))

with_bb == \E p \in BbParams : Push(<< "with_bb", p >>, Bb(p[1], p[2]))

\* calculate() returns self, or unwinds when an algorithm panics
Return(r) ==
    /\ pc' = IF r.panic THEN "panicked" ELSE "calculated"
    /\ indicators' = IF r.panic THEN indicators ELSE r.ind
    /\ visited' = r.visited

\* a calculate() that drains the ask list
calculate_draining ==
    /\ pc # "panicked"
    /\ Return(RunAsks(series, asks, indicators))
    /\ asks' = << >>
    /\ UNCHANGED << symbol, interval, series, calls >>
    /\ UNCHANGED pipeline_vars

calculate ==
    /\ pc # "panicked"
    /\ Return(RunAsks(series, asks, indicators))
    /\ UNCHANGED << symbol, interval, series, asks, calls >>
    /\ UNCHANGED pipeline_vars

Next ==
    \/ with_sma
    \/ with_ema
    \/ with_rsi
    \/ with_stochastic
    \/ with_macd
    \/ with_bb
    \/ calculate

Spec == Init /\ [][Next]_vars

\* the engine before MarketSeries::enhance_data has been given a series
EngineIdle ==
    /\ symbol = "None"
    /\ interval = "Daily"
    /\ series = << >>
    /\ asks = << >>
    /\ indicators = DefaultIndicators
    /\ pc = "fresh"
    /\ calls = << >>
    /\ visited = << >>

PubInit == EngineIdle /\ \E kind \in Publishers : NewPipeline(kind)

\* MarketClient::create_endpoint and MarketClient::get_data take the client
\* by value: when they return an error the client, and the publisher in it,
\* are dropped
Consumed == invoked.op \in {"create_endpoint", "get_data"} /\ returned.status # "Ok"

\* a call of the request method op with the arguments sym and i, r what it
\* returns and the publisher it leaves
Requested(op, sym, i, r) ==
    /\ site' = r.self
    /\ returned' = [status |-> r.ret, series |-> << >>]
    /\ invoked' = [op |-> op, symbol |-> sym, interval |-> i]
    /\ queued' = queued + 1
    /\ rejected' = IF r.ret = "Ok" THEN rejected ELSE rejected + 1
    /\ UNCHANGED engine_vars

\* a call of the pipeline stage op, r what it returns and the publisher it
\* leaves, results the series it hands out
Staged(op, r, results) ==
    /\ site' = r.self
    /\ returned' = [status |-> r.ret, series |-> results]
    /\ invoked' = [op |-> op, symbol |-> "None", interval |-> "None"]
    /\ UNCHANGED << queued, rejected >>
    /\ UNCHANGED engine_vars

intraday_series ==
    /\ ~Consumed
    /\ queued < MaxRequests
    /\ site.kind # "Iex"
    /\ \E sym \in Symbols, i \in IntradayArguments(site.kind) :
          Requested("intraday_series", sym, i, IntradaySeries(site, sym, i))

daily_series ==
    /\ ~Consumed
    /\ queued < MaxRequests
    /\ \E sym \in Symbols :
          Requested("daily_series", sym, "Daily", PeriodSeries(site, sym, "Daily"))

weekly_series ==
    /\ ~Consumed
    /\ queued < MaxRequests
    /\ site.kind # "Iex"
    /\ \E sym \in Symbols :
          Requested("weekly_series", sym, "Weekly", PeriodSeries(site, sym, "Weekly"))

monthly_series ==
    /\ ~Consumed
    /\ queued < MaxRequests
    /\ site.kind # "Iex"
    /\ \E sym \in Symbols :
          Requested("monthly_series", sym, "Monthly", PeriodSeries(site, sym, "Monthly"))

\* MarketClient::create_endpoint
create_endpoint ==
    /\ ~Consumed
    /\ Staged("create_endpoint", Returns(CreateEndpoint(site), "Ok"), << >>)

\* MarketClient::get_data: which download fails, if any, and which body is
\* invalid, if any, is the network's choice
get_data ==
    /\ ~Consumed
    /\ \E failed \in 0 .. Len(site.endpoints), bad \in 0 .. Len(site.endpoints) :
          Staged("get_data", GetData(site, failed, bad), << >>)

\* MarketClient::transform_data
transform_data ==
    /\ ~Consumed
    /\ Staged("transform_data", Returns(TransformData(site).self, "Ok"),
              TransformData(site).ret)

PubNext ==
    \/ intraday_series
    \/ daily_series
    \/ weekly_series
    \/ monthly_series
    \/ create_endpoint
    \/ get_data
    \/ transform_data

PubSpec == PubInit /\ [][PubNext]_vars

(***************************************************************************)
(* Properties.                                                             *)
(***************************************************************************)
\* the series as enhance_data left it, before any call: the algorithms are
\* functions of the series and their parameters, and the series never changes
JustEnhanced == pc = "fresh" /\ asks = << >>

\* an algorithm returned one sequence of n values
SeqOfLen(r, n) == ~r.panic /\ Len(r.val) = n

\* an algorithm returned three sequences of n values each
TripleOfLen(r, n) ==
    ~r.panic /\ Len(r.val[1]) = n /\ Len(r.val[2]) = n /\ Len(r.val[3]) = n

LastOf(q) == q[Len(q)]

\* the MACD periods the properties range over: every one up to past the
\* longest enumerated series, and the ones of the examples
CheckedMacdPeriods == (0 .. MaxLen + 1) \cup {9, 12, 26}

\* C1: for every series of n bars and every period P with 1 <= P < n, SMA,
\* EMA, RSI and Stochastic return a sequence of exactly n values, and
\* Bollinger Bands, for any multiplier K, three sequences of exactly n values.
C1_LengthOfValidPeriod ==
    JustEnhanced =>
        \A P \in 1 .. Len(series) - 1 :
            /\ SeqOfLen(calculate_sma(series, P), Len(series))
            /\ SeqOfLen(calculate_ema(series, P), Len(series))
            /\ SeqOfLen(calculate_rsi(series, P), Len(series))
            /\ SeqOfLen(calculate_stochastic(series, P), Len(series))
            /\ \A K \in 0 .. 2 :
                  TripleOfLen(calculate_bollinger_bands(series, P, K), Len(series))

\* calculate() has stored the bands of a Bollinger ask with 1 <= P < n
C1_Witness ==
    /\ pc = "calculated"
    /\ \E i \in DOMAIN asks :
          /\ asks[i].kind = "Bb"
          /\ 1 <= asks[i].period /\ asks[i].period < Len(series)
          /\ Len(indicators.bb[Label(asks[i])][1]) = Len(series)

\* C2 as stated: for every MACD parameters with F < S < G < n, calculate()
\* stores a MACD line, a signal line and a histogram of exactly n values each.
C2_SpecOrderComputes ==
    pc = "calculated" =>
        \A i \in DOMAIN asks :
            (/\ asks[i].kind = "Macd"
             /\ asks[i].fast < asks[i].slow
             /\ asks[i].slow < asks[i].signal
             /\ asks[i].signal < Len(series))
            => /\ Len(indicators.macd[Label(asks[i])][1]) = Len(series)
               /\ Len(indicators.macd[Label(asks[i])][2]) = Len(series)
               /\ Len(indicators.macd[Label(asks[i])][3]) = Len(series)

\* C2 amended: calculate_macd computes exactly when F < S, G < S and S < n,
\* and then its three sequences have exactly n values each; for every other
\* parameters, F < S < G < n among them, it returns three empty sequences.
C2_CodeOrderComputes ==
    JustEnhanced =>
        \A F \in CheckedMacdPeriods, S \in CheckedMacdPeriods, G \in CheckedMacdPeriods :
            IF F < S /\ G < S /\ S < Len(series)
            THEN TripleOfLen(calculate_macd(series, F, S, G), Len(series))
            ELSE calculate_macd(series, F, S, G) = Ok(EmptyTriple)

\* calculate() has stored the three lines of a MACD ask with F < S, G < S, S < n
C2_Witness ==
    /\ pc = "calculated"
    /\ \E i \in DOMAIN asks :
          /\ asks[i].kind = "Macd"
          /\ asks[i].fast < asks[i].slow /\ asks[i].signal < asks[i].slow
          /\ asks[i].slow < Len(series)
          /\ Len(indicators.macd[Label(asks[i])][3]) = Len(series)

\* C3: for every series and every MACD parameters with fast >= slow,
\* calculate_macd returns three empty sequences without panicking; a
\* calculate() never unwinds at such an ask, and stores the empty triple.
C3_FastNotBelowSlowIsEmpty ==
    /\ JustEnhanced =>
          \A F \in CheckedMacdPeriods, S \in CheckedMacdPeriods, G \in CheckedMacdPeriods :
              F >= S => calculate_macd(series, F, S, G) = Ok(EmptyTriple)
    /\ pc = "panicked" =>
          ~(LastOf(visited).kind = "Macd" /\ LastOf(visited).fast >= LastOf(visited).slow)
    /\ pc = "calculated" =>
          \A i \in DOMAIN asks :
              (asks[i].kind = "Macd" /\ asks[i].fast >= asks[i].slow)
              => indicators.macd[Label(asks[i])] = EmptyTriple

\* calculate() has returned with a MACD ask with fast >= slow among its asks,
\* on a series long enough for the slow period
C3_Witness ==
    /\ pc = "calculated"
    /\ \E i \in DOMAIN asks :
          /\ asks[i].kind = "Macd"
          /\ asks[i].fast >= asks[i].slow
          /\ asks[i].slow < Len(series)
          /\ asks[i].signal < asks[i].slow

\* the lengths of all the sequences the Result Store holds
StoredLengths ==
    UNION {{Len(indicators[f][k]) : k \in DOMAIN indicators[f]} :
              f \in {"sma", "ema", "rsi", "stochastic"}}
    \cup UNION {{Len(indicators[f][k][c]) : k \in DOMAIN indicators[f], c \in 1 .. 3} :
                   f \in {"macd", "bb"}}

\* the lengths of the sequences stored for the ask a
LengthsFor(a) ==
    IF a.kind \in {"Macd", "Bb"}
    THEN {Len(indicators[Field(a)][Label(a)][c]) : c \in 1 .. 3}
    ELSE {Len(indicators[Field(a)][Label(a)])}

\* the parameters for which an algorithm returns early, with empty sequences
TakesGuard(a, n) ==
    IF a.kind = "Macd" THEN n <= a.slow \/ a.fast >= a.slow \/ a.signal >= a.slow
    ELSE IF a.kind \in {"Stochastic", "Bb"} THEN n <= a.period
    ELSE FALSE

\* C4 as stated: every sequence stored in the Result Store has exactly as
\* many values as the series has bars, whatever the parameters of the asks.
C4_StoredLengthIsSeriesLength == StoredLengths \subseteq {Len(series)}

\* C4 amended: every sequence stored in the Result Store has exactly as many
\* values as the series has bars, or is empty; after calculate() the
\* sequences of an ask are empty exactly when its algorithm returned early
\* (MACD with n <= slow, fast >= slow or signal >= slow; Stochastic and
\* Bollinger Bands with n <= period) and the series has bars.
C4_StoredLengthOrEmpty ==
    /\ StoredLengths \subseteq {0, Len(series)}
    /\ pc = "calculated" =>
          \A i \in DOMAIN asks :
              LengthsFor(asks[i]) =
                  {IF TakesGuard(asks[i], Len(series)) THEN 0 ELSE Len(series)}

\* calculate() has stored an empty sequence for a series that has bars
C4_Witness ==
    /\ pc = "calculated"
    /\ Len(series) > 0
    /\ \E i \in DOMAIN asks :
          asks[i].kind = "Stochastic" /\ indicators.stochastic[Label(asks[i])] = << >>

\* the labels of the recorded asks of one kind
LabelsOf(kind) == {Label(asks[i]) : i \in {j \in DOMAIN asks : asks[j].kind = kind}}

\* C5: after calculate() the keys of the Result Store are exactly the labels
\* of the recorded asks; on the 30-bar AAPL series, with_sma(10), with_ema(20),
\* with_rsi(14) and calculate() give exactly the keys "SMA 10", "EMA 20" and
\* "RSI 14", each with one value per bar, the first 9 SMA values and the first
\* 14 RSI values being 0.0.
C5_KeysAreLabels ==
    pc = "calculated" =>
        /\ DOMAIN indicators.sma = LabelsOf("Sma")
        /\ DOMAIN indicators.ema = LabelsOf("Ema")
        /\ DOMAIN indicators.rsi = LabelsOf("Rsi")
        /\ DOMAIN indicators.stochastic = LabelsOf("Stochastic")
        /\ DOMAIN indicators.macd = LabelsOf("Macd")
        /\ DOMAIN indicators.bb = LabelsOf("Bb")
        /\ (symbol = "AAPL" /\ asks = << Sma(10), Ema(20), Rsi(14) >>) =>
              /\ Len(series) = ScenarioLen
              /\ DOMAIN indicators.sma = {"SMA 10"}
              /\ DOMAIN indicators.ema = {"EMA 20"}
              /\ DOMAIN indicators.rsi = {"RSI 14"}
              /\ DOMAIN indicators.stochastic = {}
              /\ DOMAIN indicators.macd = {}
              /\ DOMAIN indicators.bb = {}
              /\ Len(indicators.sma["SMA 10"]) = Len(series)
              /\ Len(indicators.ema["EMA 20"]) = Len(series)
              /\ Len(indicators.rsi["RSI 14"]) = Len(series)
              /\ \A j \in 1 .. 9 : indicators.sma["SMA 10"][j] = 0
              /\ \A j \in 1 .. 14 : indicators.rsi["RSI 14"][j] = 0

\* the end-to-end scenario has run
C5_Witness ==
    /\ pc = "calculated"
    /\ symbol = "AAPL"
    /\ asks = << Sma(10), Ema(20), Rsi(14) >>
    /\ indicators.sma["SMA 10"][10] # 0

\* C6: after calculate(), two asks of the same kind with different parameters
\* have different keys; the value under the key of every ask is what its
\* algorithm returns for the series alone, whatever other asks were recorded;
\* identical asks share one key (one key per distinct ask), its value being
\* that of one computation.
C6_KeysDistinctValuesIndependent ==
    pc = "calculated" =>
        /\ \A i \in DOMAIN asks, j \in DOMAIN asks :
              (asks[i].kind = asks[j].kind /\ asks[i] # asks[j])
              => Label(asks[i]) # Label(asks[j])
        /\ \A i \in DOMAIN asks :
              indicators[Field(asks[i])][Label(asks[i])] = Dispatch(series, asks[i]).val
        /\ \A f \in DOMAIN indicators :
              Cardinality(DOMAIN indicators[f]) =
                  Cardinality({asks[i] : i \in {j \in DOMAIN asks : Field(asks[j]) = f}})

\* calculate() has returned for two asks of one kind with different
\* parameters and a repetition of one of them
C6_Witness ==
    /\ pc = "calculated"
    /\ \E i \in DOMAIN asks, j \in DOMAIN asks, k \in DOMAIN asks :
          /\ i # k
          /\ asks[i] = asks[k]
          /\ asks[i].kind = asks[j].kind
          /\ asks[i] # asks[j]

\* the Ask a builder call is to record
AskOfCall(c) ==
    IF c[1] = "with_sma" THEN Sma(c[2][1])
    ELSE IF c[1] = "with_ema" THEN Ema(c[2][1])
    ELSE IF c[1] = "with_rsi" THEN Rsi(c[2][1])
    ELSE IF c[1] = "with_stochastic" THEN Stochastic(c[2][1])
    ELSE IF c[1] = "with_macd" THEN Macd(c[2][1], c[2][2], c[2][3])
    ELSE Bb(c[2][1], c[2][2])

\* the step is a builder call
BuilderStep == calls' # calls

\* C7: each builder call appends exactly one Ask with the given parameters,
\* whatever they are, to the end of the ask list and leaves the earlier asks,
\* the symbol, the interval, the bars and the Result Store unchanged; after k
\* builder calls the ask list has exactly k entries, in call order.
C7_BuilderAppendsOneAsk ==
    /\ [](/\ Len(asks) = Len(calls)
          /\ \A i \in DOMAIN calls : asks[i] = AskOfCall(calls[i]))
    /\ [][BuilderStep =>
            /\ Len(calls') = Len(calls) + 1
            /\ asks' = Append(asks, AskOfCall(LastOf(calls')))
            /\ UNCHANGED << symbol, interval, series, indicators >>]_vars

\* builder calls have recorded asks of period 0 and an ask with a period
\* beyond the series
C7_Witness ==
    /\ Len(calls) >= 1
    /\ \E i \in DOMAIN asks :
          /\ asks[i].kind \in {"Sma", "Rsi"}
          /\ (asks[i].period = 0 \/ asks[i].period > Len(series))

\* C8: before the first calculate() the six maps of the Result Store are
\* empty, the ask list is empty before the first builder call, and the Result
\* Store changes only in a step of calculate().
C8_StoreFilledOnlyByCalculate ==
    /\ [](pc = "fresh" => indicators = DefaultIndicators)
    /\ [](calls = << >> => asks = << >>)
    /\ [][indicators' # indicators => (~BuilderStep /\ pc' = "calculated")]_vars

\* asks are recorded, computable, and nothing has been computed
C8_Witness ==
    /\ pc = "fresh"
    /\ Len(asks) >= 2
    /\ \A i \in DOMAIN asks : ~Dispatch(series, asks[i]).panic
    /\ indicators = DefaultIndicators

\* p is q, or the start of q
IsPrefix(p, q) == Len(p) <= Len(q) /\ \A i \in DOMAIN p : p[i] = q[i]

\* C9: calculate() dispatches the asks in the order they were recorded (all
\* of them when it returns, the ones up to the panicking ask when it unwinds)
\* and leaves the ask list, the symbol, the interval and the bars as they
\* were.
C9_CalculateReadsAsksInOrder ==
    /\ [](pc = "calculated" => visited = asks)
    /\ [](IsPrefix(visited, asks))
    /\ [][~BuilderStep => UNCHANGED << asks, symbol, interval, series >>]_vars

\* calculate() has returned after dispatching several asks, all still recorded
C9_Witness ==
    /\ pc = "calculated"
    /\ Len(asks) >= 2
    /\ visited = asks
    /\ \E i \in DOMAIN asks, j \in DOMAIN asks : i < j /\ asks[i] # asks[j]

\* calculate() has returned at least once
Calculated == pc \in {"calculated", "rebuilding"}

\* C10 as stated: once calculate() has returned, no builder call and no
\* further calculate() changes the ask list or the Result Store.
C10_ImmutableAfterCalculate ==
    [][Calculated => (asks' = asks /\ indicators' = indicators)]_vars

\* every entry of the Result Store s is in t, with the same value
Keeps(s, t) ==
    \A f \in DOMAIN s : \A k \in DOMAIN s[f] : k \in DOMAIN t[f] /\ t[f][k] = s[f][k]

\* C10 amended: once calculate() has returned, the ask list changes only by a
\* builder call appending one ask, which leaves the Result Store unchanged;
\* the Result Store changes only in a further calculate(), which keeps every
\* entry it holds and adds the entries of the asks appended since; a further
\* calculate() with no builder call since the last one changes neither.
C10_AppendOnlyAfterCalculate ==
    [][Calculated =>
          /\ asks' # asks =>
                (BuilderStep /\ IsPrefix(asks, asks') /\ Len(asks') = Len(asks) + 1
                 /\ indicators' = indicators)
          /\ indicators' # indicators => (~BuilderStep /\ Keeps(indicators, indicators'))
          /\ pc = "calculated" /\ ~BuilderStep =>
                (asks' = asks /\ indicators' = indicators)]_vars

\* a builder call was made after a calculate() that filled the Result Store
C10_Witness ==
    /\ pc = "rebuilding"
    /\ indicators # DefaultIndicators
    /\ Len(asks) > Len(visited)

\* the close prices of the bars q
Closes(q) == [j \in 1 .. Len(q) |-> q[j].close]

RECURSIVE CloseSum(_, _, _)
\* the sum of close over the bars q[a .. b], indices counted from 0
CloseSum(q, a, b) == IF b < a THEN 0 ELSE CloseSum(q, a, b - 1) + q[b + 1].close

\* v is the SMA of period P of the bars q: the mean of close over bars
\* [i-P+1, i] at every index i >= P-1, and 0.0 before
IsSmaOf(v, q, P) ==
    /\ Len(v) = Len(q)
    /\ \A i \in 0 .. Len(q) - 1 :
          v[i + 1] = IF i >= P - 1 THEN CloseSum(q, i - P + 1, i) \div P ELSE 0

\* C11: for every series of n bars and period P with 1 <= P < n, the SMA at
\* every index i >= P-1 is the arithmetic mean of close over bars [i-P+1, i]
\* and is 0.0 at every index i < P-1, both as calculate_sma returns it and as
\* calculate() stores it; closes [1,2,3,4,5] with P=3 give
\* [0.0, 0.0, 2.0, 3.0, 4.0].
C11_SmaIsWindowMean ==
    /\ JustEnhanced =>
          \A P \in 1 .. Len(series) - 1 :
              /\ ~calculate_sma(series, P).panic
              /\ IsSmaOf(calculate_sma(series, P).val, series, P)
    /\ (JustEnhanced /\ Closes(series) = [j \in 1 .. 5 |-> ToF32(j)]) =>
          calculate_sma(series, 3).val =
              << 0, 0, ToF32(2), ToF32(3), ToF32(4) >>
    /\ pc = "calculated" =>
          \A i \in DOMAIN asks :
              (asks[i].kind = "Sma" /\ 1 <= asks[i].period /\ asks[i].period < Len(series))
              => IsSmaOf(indicators.sma[Label(asks[i])], series, asks[i].period)

\* calculate() has stored the SMA of period 2 of the closes [1,2,3,4,5]
C11_Witness ==
    /\ pc = "calculated"
    /\ Closes(series) = [j \in 1 .. 5 |-> ToF32(j)]
    /\ asks = << Sma(2) >>
    /\ indicators.sma["SMA 2"][1] = 0
    /\ indicators.sma["SMA 2"][2] = (3 * Scale) \div 2
    /\ indicators.sma["SMA 2"][5] = (9 * Scale) \div 2

\* the periods the EMA properties range over: every one up to past the
\* longest enumerated series, and the ones of the examples
CheckedEmaPeriods == (0 .. MaxLen + 1) \cup {6, 20}

\* the smoothing factor 2 / (P + 1), in fixed point
SmoothingFactor(P) == (2 * Scale * Scale) \div ((P + 1) * Scale)

\* v is the EMA of period P of the numbers xs: seeded with xs[0], then
\* v[i] = a * xs[i] + (1 - a) * v[i-1]
IsEmaOf(v, xs, P) ==
    /\ Len(v) = Len(xs)
    /\ xs # << >> => v[1] = xs[1]
    /\ \A i \in 2 .. Len(xs) :
          v[i] = (SmoothingFactor(P) * xs[i]) \div Scale
                 + ((Scale - SmoothingFactor(P)) * v[i - 1]) \div Scale

\* C12: for every non-empty series and every period P, the EMA has
\* value[0] = close[0] and value[i] = a*close[i] + (1-a)*value[i-1] with
\* a = 2/(P+1) for every i >= 1, both as calculate_ema returns it and as
\* calculate() stores it; calculate_ema over the bars and calculate_ema_slice
\* over their close values return the same sequence.
C12_EmaSeedAndRecurrence ==
    /\ (JustEnhanced /\ series # << >>) =>
          \A P \in CheckedEmaPeriods :
              /\ ~calculate_ema(series, P).panic
              /\ IsEmaOf(calculate_ema(series, P).val, Closes(series), P)
              /\ calculate_ema_slice(Closes(series), P) = calculate_ema(series, P)
    /\ pc = "calculated" =>
          \A i \in DOMAIN asks :
              asks[i].kind = "Ema"
              => IsEmaOf(indicators.ema[Label(asks[i])], Closes(series), asks[i].period)

\* calculate() has stored an EMA that starts at the first close and moves on
C12_Witness ==
    /\ pc = "calculated"
    /\ \E i \in DOMAIN asks :
          /\ asks[i].kind = "Ema"
          /\ asks[i].period >= 1
          /\ Len(series) >= 3
          /\ indicators.ema[Label(asks[i])][1] = series[1].close
          /\ indicators.ema[Label(asks[i])][2] # series[1].close
          /\ indicators.ema[Label(asks[i])][3] # series[3].close

\* every close of the bars q is above the one before
StrictlyIncreasing(q) == \A j \in 2 .. Len(q) : q[j].close > q[j - 1].close

\* v has n values: 0.0 at the indices below P and 100.0 from P on
IsZerosThenHundreds(v, n, P) ==
    /\ Len(v) = n
    /\ \A i \in 0 .. n - 1 : v[i + 1] = IF i >= P THEN 100 * Scale ELSE 0

\* C13: for every series with strictly increasing close prices and every
\* period P with 1 <= P < n, the RSI is exactly 100.0 at every index i >= P
\* and exactly 0.0 at every index i < P, both as calculate_rsi returns it and
\* as calculate() stores it.
C13_RisingRsiIsHundred ==
    /\ (JustEnhanced /\ StrictlyIncreasing(series)) =>
          \A P \in 1 .. Len(series) - 1 :
              /\ ~calculate_rsi(series, P).panic
              /\ IsZerosThenHundreds(calculate_rsi(series, P).val, Len(series), P)
    /\ (pc = "calculated" /\ StrictlyIncreasing(series)) =>
          \A i \in DOMAIN asks :
              (asks[i].kind = "Rsi" /\ 1 <= asks[i].period /\ asks[i].period < Len(series))
              => IsZerosThenHundreds(indicators.rsi[Label(asks[i])], Len(series),
                                     asks[i].period)

\* calculate() has stored the RSI of period 2 of a rising series of 5 bars
C13_Witness ==
    /\ pc = "calculated"
    /\ StrictlyIncreasing(series)
    /\ Len(series) = 5
    /\ asks = << Rsi(2) >>
    /\ indicators.rsi["RSI 2"] = << 0, 0, 100 * Scale, 100 * Scale, 100 * Scale >>

\* the series has bars and every recorded ask is an SMA, RSI, Stochastic or
\* Bollinger ask with a period greater than or equal to the series length
AllPeriodsBeyondSeries ==
    /\ series # << >>
    /\ \A i \in DOMAIN asks :
          /\ asks[i].kind \in {"Sma", "Rsi", "Stochastic", "Bb"}
          /\ asks[i].period >= Len(series)

\* C14: when the series has bars and every recorded ask is an SMA, RSI,
\* Stochastic or Bollinger ask with a period greater than or equal to the
\* series length, calculate() never aborts (no panic, no failed assertion, no
\* out-of-range index): it returns, with a result stored for every ask.
C14_LargePeriodNeverAborts ==
    AllPeriodsBeyondSeries =>
        /\ pc # "panicked"
        /\ pc = "calculated" =>
              \A i \in DOMAIN asks : Label(asks[i]) \in DOMAIN indicators[Field(asks[i])]

\* the close-to-close delta at bar j of the bars q, j counted from 0
Delta(q, j) == q[j + 1].close - q[j].close

\* the gain and the loss of a delta
GainOf(d) == IF d > 0 THEN d ELSE 0
LossOf(d) == IF d > 0 THEN 0 ELSE -d

RECURSIVE WindowGain(_, _, _)
\* the sum of the positive deltas at the bars a .. b
WindowGain(q, a, b) ==
    IF b < a THEN 0 ELSE WindowGain(q, a, b - 1) + GainOf(Delta(q, b))

RECURSIVE WindowLoss(_, _, _)
\* the sum of the absolute negative deltas at the bars a .. b
WindowLoss(q, a, b) ==
    IF b < a THEN 0 ELSE WindowLoss(q, a, b - 1) + LossOf(Delta(q, b))

\* 100 - 100 / (1 + avg_gain / avg_loss), and 100 when avg_loss = 0, for
\* avg_gain = gains / P and avg_loss = losses / P
RsiFormula(gains, losses, P) ==
    IF losses \div P = 0 THEN 100 * Scale
    ELSE FSub(100 * Scale,
              FDiv(100 * Scale, FAdd(Scale, FDiv(gains \div P, losses \div P))))

Carried(sum, P, amount) == sum - sum \div P + amount

RECURSIVE RunningGain(_, _, _)
\* the running gain sum at index i >= P: the positive deltas of the bars
\* 1 .. P with the delta of bar P counted twice at i = P; afterwards the
\* sum of the index before less its P-th part, plus the gain of bar i
RunningGain(q, P, i) ==
    IF i <= P THEN WindowGain(q, 1, P) + GainOf(Delta(q, P))
    ELSE Carried(RunningGain(q, P, i - 1), P, GainOf(Delta(q, i)))

RECURSIVE RunningLoss(_, _, _)
\* the running loss sum at index i >= P, likewise
RunningLoss(q, P, i) ==
    IF i <= P THEN WindowLoss(q, 1, P) + LossOf(Delta(q, P))
    ELSE Carried(RunningLoss(q, P, i - 1), P, LossOf(Delta(q, i)))

\* v is the RSI of period P of the bars q computed from the running sums
IsRunningRsiOf(v, q, P) ==
    /\ Len(v) = Len(q)
    /\ \A i \in 0 .. Len(q) - 1 :
          v[i + 1] = IF i < P THEN 0
                     ELSE RsiFormula(RunningGain(q, P, i), RunningLoss(q, P, i), P)

Lesser(x, y) == IF x < y THEN x ELSE y
Greater(x, y) == IF x > y THEN x ELSE y

RECURSIVE MinLow(_, _, _)
\* the lowest low over the bars a .. b of q (a <= b), indices counted from 0
MinLow(q, a, b) ==
    IF b <= a THEN q[a + 1].low
    ELSE Lesser(q[b + 1].low, MinLow(q, a, b - 1))

RECURSIVE MaxHigh(_, _, _)
\* the highest high over the bars a .. b of q (a <= b)
MaxHigh(q, a, b) ==
    IF b <= a THEN q[a + 1].high
    ELSE Greater(q[b + 1].high, MaxHigh(q, a, b - 1))

\* %K of a close within the range lo .. hi: 100 * (close - lo) / (hi - lo),
\* and 0.0 when hi = lo
PercentOfRange(close, lo, hi) ==
    IF hi = lo THEN 0
    ELSE (((close - lo) * Scale) \div (hi - lo)) * 100

\* v is the Stochastic %K of period P of the bars q with the range taken
\* over the W bars ending at each index i >= P, and 0.0 at every i < P
IsStochasticOf(v, q, P, W) ==
    /\ Len(v) = Len(q)
    /\ \A i \in 0 .. Len(q) - 1 :
          v[i + 1] = IF i < P THEN 0
                     ELSE PercentOfRange(q[i + 1].close,
                                         MinLow(q, i - W + 1, i),
                                         MaxHigh(q, i - W + 1, i))

\* C16 as stated: for every index i >= P the stored Stochastic %K is
\* 100*(close[i] - lowest_low)/(highest_high - lowest_low), the lowest low
\* and highest high taken over the trailing P+1 bars [i-P, i], and 0.0 when
\* they are equal; every index i < P holds 0.0.
C16_StochasticOverPPlusOneBars ==
    pc = "calculated" =>
        \A k \in DOMAIN asks :
            (/\ asks[k].kind = "Stochastic"
             /\ 1 <= asks[k].period /\ asks[k].period < Len(series))
            => IsStochasticOf(indicators.stochastic[Label(asks[k])], series,
                              asks[k].period, asks[k].period + 1)

\* C16 amended: for every period P with 1 <= P < n and every index i >= P
\* the Stochastic %K is 100*(close[i] - lowest_low)/(highest_high -
\* lowest_low), the lowest low and highest high taken over the trailing P
\* bars [i-P+1, i], and 0.0 when they are equal; every index i < P holds 0.0.
C16_StochasticOverPBars ==
    /\ JustEnhanced =>
          \A P \in 1 .. Len(series) - 1 :
              /\ ~calculate_stochastic(series, P).panic
              /\ IsStochasticOf(calculate_stochastic(series, P).val, series, P, P)
    /\ pc = "calculated" =>
          \A k \in DOMAIN asks :
              (/\ asks[k].kind = "Stochastic"
               /\ 1 <= asks[k].period /\ asks[k].period < Len(series))
              => IsStochasticOf(indicators.stochastic[Label(asks[k])], series,
                                asks[k].period, asks[k].period)

\* calculate() has stored a %K whose bar i-P lies outside the range of the
\* bars [i-P+1, i]
C16_Witness ==
    /\ pc = "calculated"
    /\ \E k \in DOMAIN asks :
          /\ asks[k].kind = "Stochastic"
          /\ 1 <= asks[k].period /\ asks[k].period < Len(series)
          /\ series[1].low < MinLow(series, 1, asks[k].period)
          /\ indicators.stochastic[Label(asks[k])][asks[k].period + 1] # 0

\* calculate_macd computes for these parameters on n bars
MacdComputes(n, F, S, G) == F < S /\ G < S /\ S < n

\* t is the MACD triple made of the EMAs fast_ema and slow_ema of n values:
\* the MACD line is fast_ema - slow_ema at every index, the signal line is
\* the EMA of period G of the MACD line, seeded with macd[0], and the
\* histogram is their difference
IsMacdFrom(t, n, fast_ema, slow_ema, G) ==
    /\ Len(t[1]) = n /\ Len(t[3]) = n
    /\ \A i \in 1 .. n : t[1][i] = fast_ema[i] - slow_ema[i]
    /\ IsEmaOf(t[2], t[1], G)
    /\ \A i \in 1 .. n : t[3][i] = t[1][i] - t[2][i]

\* t is the MACD triple of the bars q
IsMacdOf(t, q, F, S, G) ==
    IsMacdFrom(t, Len(q), calculate_ema(q, F).val, calculate_ema(q, S).val, G)

\* C17: whenever calculate_macd does not take its guard, at every index i
\* macd[i] = EMA_F(close)[i] - EMA_S(close)[i], the signal line is the EMA of
\* period G of the macd sequence itself, seeded with macd[0], and
\* histogram[i] = macd[i] - signal[i]; so for the triple calculate_macd
\* returns and for the one calculate() stores.
C17_MacdFromEmas ==
    /\ JustEnhanced =>
          \A F \in CheckedMacdPeriods, S \in CheckedMacdPeriods, G \in CheckedMacdPeriods :
              MacdComputes(Len(series), F, S, G)
              => /\ ~calculate_macd(series, F, S, G).panic
                 /\ IsMacdOf(calculate_macd(series, F, S, G).val, series, F, S, G)
    /\ pc = "calculated" =>
          \A k \in DOMAIN asks :
              (/\ asks[k].kind = "Macd"
               /\ MacdComputes(Len(series), asks[k].fast, asks[k].slow, asks[k].signal))
              => IsMacdOf(indicators.macd[Label(asks[k])], series,
                          asks[k].fast, asks[k].slow, asks[k].signal)

\* calculate() has stored the lines of MACD (12, 26, 9): the signal line
\* starts at macd[0] = 0, away from the price, and leaves the MACD line
C17_Witness ==
    /\ pc = "calculated"
    /\ Macd(12, 26, 9) \in {asks[k] : k \in DOMAIN asks}
    /\ indicators.macd["MACD (12, 26, 9)"][1][1] = 0
    /\ indicators.macd["MACD (12, 26, 9)"][2][1] = 0
    /\ \E i \in 2 .. Len(series) : indicators.macd["MACD (12, 26, 9)"][3][i] # 0

\* t is a Bollinger triple of n values each whose upper and lower bands are
\* 0.0 at the Z first indices and whose middle band is the sequence middle
IsPaddedAroundMiddle(t, n, Z, middle) ==
    /\ Len(t[1]) = n /\ Len(t[2]) = n /\ Len(t[3]) = n
    /\ \A j \in 1 .. Z : t[1][j] = 0 /\ t[3][j] = 0
    /\ t[2] = middle

\* C18 as stated: for 1 <= P < n the stored upper and lower Bollinger bands
\* are exactly 0.0 at every index i < P+1 (indices 0 through P), while the
\* middle band is the unpadded EMA(P) of close at every index.
C18_BandsPaddedThroughP ==
    pc = "calculated" =>
        \A k \in DOMAIN asks :
            (asks[k].kind = "Bb" /\ 1 <= asks[k].period /\ asks[k].period < Len(series))
            => IsPaddedAroundMiddle(indicators.bb[Label(asks[k])], Len(series),
                                    asks[k].period + 1,
                                    calculate_ema(series, asks[k].period).val)

\* C18 amended: for every series of n bars, period P with 1 <= P < n and
\* multiplier K, the upper and lower Bollinger bands are exactly 0.0 at
\* every index i < P (indices 0 through P-1), while the middle band holds
\* the unpadded EMA(P) of close at every index, index 0 included.
C18_BandsPaddedBelowP ==
    /\ JustEnhanced =>
          \A P \in 1 .. Len(series) - 1, K \in 0 .. 2 :
              /\ ~calculate_bollinger_bands(series, P, K).panic
              /\ IsPaddedAroundMiddle(calculate_bollinger_bands(series, P, K).val,
                                      Len(series), P, calculate_ema(series, P).val)
              /\ IsEmaOf(calculate_bollinger_bands(series, P, K).val[2],
                         Closes(series), P)
    /\ pc = "calculated" =>
          \A k \in DOMAIN asks :
              (asks[k].kind = "Bb" /\ 1 <= asks[k].period /\ asks[k].period < Len(series))
              => IsPaddedAroundMiddle(indicators.bb[Label(asks[k])], Len(series),
                                      asks[k].period,
                                      calculate_ema(series, asks[k].period).val)

\* calculate() has stored bands that are 0.0 below index P and not at P,
\* around a middle band that starts at the first close
C18_Witness ==
    /\ pc = "calculated"
    /\ \E k \in DOMAIN asks :
          /\ asks[k].kind = "Bb"
          /\ 2 <= asks[k].period /\ asks[k].period < Len(series)
          /\ indicators.bb[Label(asks[k])][1][asks[k].period] = 0
          /\ indicators.bb[Label(asks[k])][1][asks[k].period + 1] # 0
          /\ indicators.bb[Label(asks[k])][3][asks[k].period + 1] # 0
          /\ indicators.bb[Label(asks[k])][2][1] = series[1].close

\* (high + low + close) / 3 of the bar b
Typical(b) == (b.high + b.low + b.close) \div 3

RECURSIVE SquaresSum(_, _, _, _)
\* the sum over the bars a .. b of q of the squared distance of their
\* typical price to the typical price centre
SquaresSum(q, a, b, centre) ==
    IF b < a THEN 0
    ELSE SquaresSum(q, a, b - 1, centre)
         + ((Typical(q[b + 1]) - centre) * (Typical(q[b + 1]) - centre)) \div Scale

\* d is the square root, rounded down, of the fixed-point number x
IsRootOf(d, x) == d >= 0 /\ d * d <= x * Scale /\ x * Scale < (d + 1) * (d + 1)

\* offset is K times the standard deviation of the typical price over the P
\* bars ending at i, taken around the typical price of bar i
IsKTimesStdDev(offset, K, q, P, i) ==
    IF K = 0 THEN offset = 0
    ELSE /\ offset % K = 0
         /\ IsRootOf(offset \div K,
                     SquaresSum(q, i - P + 1, i, Typical(q[i + 1])) \div P)

\* t is a Bollinger triple whose upper and lower values at every index
\* i >= P lie K standard deviations above and below the last middle value
IsSymmetricAroundLast(t, q, P, K) ==
    \A i \in P .. Len(t[1]) - 1 :
        /\ t[1][i + 1] - LastOf(t[2]) = LastOf(t[2]) - t[3][i + 1]
        /\ IsKTimesStdDev(t[1][i + 1] - LastOf(t[2]), K, q, P, i)
        /\ t[3][i + 1] <= LastOf(t[2]) /\ LastOf(t[2]) <= t[1][i + 1]

\* C19 as stated: at every computed Bollinger index i, for every period,
\* upper[i] and lower[i] are symmetric around the last value M of the middle
\* band: upper[i] - M = M - lower[i] = K*stddev_i >= 0, so
\* lower[i] <= M <= upper[i].
C19_BandsSymmetricAnyPeriod ==
    pc = "calculated" =>
        \A k \in DOMAIN asks :
            asks[k].kind = "Bb"
            => IsSymmetricAroundLast(indicators.bb[Label(asks[k])], series,
                                     asks[k].period, asks[k].std_dev)

\* C19 amended: for every period P >= 1, at every computed Bollinger index
\* i >= P, upper[i] and lower[i] are symmetric around one and the same
\* centre M, the last value of the middle-band EMA: upper[i] - M =
\* M - lower[i] = K*stddev_i >= 0, hence lower[i] <= M <= upper[i].
C19_BandsSymmetricAroundLast ==
    /\ JustEnhanced =>
          \A P \in 1 .. Len(series) - 1, K \in 0 .. 2 :
              IsSymmetricAroundLast(calculate_bollinger_bands(series, P, K).val,
                                    series, P, K)
    /\ pc = "calculated" =>
          \A k \in DOMAIN asks :
              (asks[k].kind = "Bb" /\ asks[k].period >= 1)
              => IsSymmetricAroundLast(indicators.bb[Label(asks[k])], series,
                                       asks[k].period, asks[k].std_dev)

\* calculate() has stored bands strictly above and below the last middle
\* value at an index where the middle band holds another value
C19_Witness ==
    /\ pc = "calculated"
    /\ \E k \in DOMAIN asks :
          /\ asks[k].kind = "Bb"
          /\ asks[k].period >= 1
          /\ asks[k].std_dev = 2
          /\ \E i \in asks[k].period + 1 .. Len(series) - 1 :
                /\ indicators.bb[Label(asks[k])][2][i] # LastOf(indicators.bb[Label(asks[k])][2])
                /\ indicators.bb[Label(asks[k])][1][i] > LastOf(indicators.bb[Label(asks[k])][2])
                /\ indicators.bb[Label(asks[k])][3][i] < LastOf(indicators.bb[Label(asks[k])][2])

\* C20: calculate() is idempotent on a state with no builder call since the
\* last calculate(): run again it returns, having dispatched the same asks,
\* with every key of the Result Store overwritten by an equal value and no
\* key added, so that the Result Store, the ask list and the series after
\* calculate().calculate() are those after a single calculate().
C20_CalculateIdempotent ==
    /\ [](pc = "calculated" =>
             RunAsks(series, asks, indicators) =
                 [panic |-> FALSE, ind |-> indicators, visited |-> asks])
    /\ [][(pc = "calculated" /\ ~BuilderStep) =>
             UNCHANGED << indicators, asks, series, symbol, interval >>]_vars

\* calculate() has returned with results stored for several asks, one of
\* them asked twice
C20_Witness ==
    /\ pc = "calculated"
    /\ visited = asks
    /\ Len(asks) >= 3
    /\ \E i \in DOMAIN asks, j \in DOMAIN asks : i < j /\ asks[i] = asks[j]
    /\ \A i \in DOMAIN asks :
          Len(indicators[Field(asks[i])][Label(asks[i])]) > 0

\* the asks of an ask list, as a set
AsksSet(q) == {q[i] : i \in DOMAIN q}

\* the ask list q with the asks at i and j exchanged
Exchanged(q, i, j) ==
    [k \in DOMAIN q |-> IF k = i THEN q[j] ELSE IF k = j THEN q[i] ELSE q[k]]

\* q with two of its asks exchanged, in every way: every order of the asks
\* of q is reached from q by such exchanges
Orders(q) == {Exchanged(q, i, j) : i \in DOMAIN q, j \in DOMAIN q}

\* q with every one of its asks recorded once more
Repeats(q) == {q \o q}

\* what the owner of the value holds after calculate(): the Result Store,
\* or nothing when calculate() unwound
Outcome(r) == IF r.panic THEN "unwound" ELSE r.ind

\* the Result Store as a function of the bars t and the set S of asks: under
\* the label of each ask, in the map of its kind, what its algorithm returns
StoreOf(t, S) ==
    [f \in DOMAIN DefaultIndicators |->
        [k \in {Label(a) : a \in {b \in S : Field(b) = f}} |->
            Dispatch(t, CHOOSE a \in S : Field(a) = f /\ Label(a) = k).val]]

\* C21: the Result Store calculate() produces depends only on the series and
\* on the set of recorded asks: the Result Store calculate() has left is the
\* one determined by the bars and the set of asks alone, whatever the order
\* and the repetitions of the ask list; and the same asks recorded with any
\* two of them exchanged (the exchanges every permutation is made of), or
\* with every ask repeated, give the same Result Store.
C21_StoreIndependentOfAskOrder ==
    pc = "calculated" =>
        /\ indicators = StoreOf(series, AsksSet(asks))
        /\ \A q \in Orders(asks) \cup Repeats(asks) :
              Outcome(RunAsks(series, q, DefaultIndicators)) =
                  Outcome(RunAsks(series, asks, DefaultIndicators))

\* calculate() has returned over three different asks, two of them of one
\* kind, which can be exchanged in three ways
C21_Witness ==
    /\ pc = "calculated"
    /\ visited = asks
    /\ Len(asks) = 3
    /\ Cardinality(AsksSet(asks)) = 3
    /\ Cardinality(Orders(asks)) = 4
    /\ \E i \in DOMAIN asks, j \in DOMAIN asks :
          i < j /\ asks[i].kind = asks[j].kind
    /\ \A i \in DOMAIN asks :
          Len(indicators[Field(asks[i])][Label(asks[i])]) > 0

\* v is a finite value of the closed range [0, 100]
InPercentRange(v) == IsFinite(v) /\ 0 <= v /\ v <= ToF32(100)

\* every value of the sequence q is in [0, 100]
AllInPercentRange(q) == \A i \in DOMAIN q : InPercentRange(q[i])

\* the gain and loss sums calculate_rsi holds after the decay step of the
\* last index of the bars t
SumsAfter(t, P) == RsiLoop(t, P, RsiInit(t, P, [gain |-> 0, loss |-> 0, i |-> 1]))

\* the sums are finite and non-negative after the decay step of every index
\* m - 1 >= P of the bars t
SumsStayNonNegative(t, P) ==
    \A m \in P + 1 .. Len(t) :
        /\ IsFinite(SumsAfter(SubSeq(t, 1, m), P).gain)
        /\ IsFinite(SumsAfter(SubSeq(t, 1, m), P).loss)
        /\ SumsAfter(SubSeq(t, 1, m), P).gain >= 0
        /\ SumsAfter(SubSeq(t, 1, m), P).loss >= 0

\* C24: for every series of n bars and every period P with 1 <= P < n,
\* calculate_rsi returns, every value it returns lies in [0, 100], and the
\* gain and loss sums are non-negative after every decay step; every RSI
\* value calculate() has stored lies in [0, 100].
C24_RsiWithinPercentRange ==
    /\ JustEnhanced =>
          \A P \in 1 .. Len(series) - 1 :
              /\ ~calculate_rsi(series, P).panic
              /\ AllInPercentRange(calculate_rsi(series, P).val)
              /\ SumsStayNonNegative(series, P)
    /\ pc = "calculated" =>
          \A k \in DOMAIN indicators.rsi : AllInPercentRange(indicators.rsi[k])

\* calculate() has stored an RSI of a period 1 <= P < n over closes that rose
\* and fell: it holds a value strictly between 0 and 100, the padding 0.0 and
\* 100.0
C24_Witness ==
    /\ pc = "calculated"
    /\ \E k \in DOMAIN asks :
          /\ asks[k].kind = "Rsi"
          /\ asks[k].period >= 1
          /\ asks[k].period < Len(series)
          /\ \E i \in DOMAIN series :
                /\ indicators.rsi[Label(asks[k])][i] > 0
                /\ indicators.rsi[Label(asks[k])][i] < ToF32(100)
          /\ \E i \in DOMAIN series : i > 1 /\ series[i].close < series[i - 1].close

\* every bar of t has its close between its low and its high
ClosesWithinRange(t) ==
    \A i \in DOMAIN t : t[i].low <= t[i].close /\ t[i].close <= t[i].high

\* C25: on a series of n bars each with low <= close <= high, for every
\* period P with 1 <= P < n, calculate_stochastic returns, and every %K value
\* it returns lies in [0, 100]; every %K value calculate() has stored for
\* such an ask lies in [0, 100].
C25_StochasticWithinPercentRange ==
    ClosesWithinRange(series) =>
        /\ JustEnhanced =>
              \A P \in 1 .. Len(series) - 1 :
                  /\ ~calculate_stochastic(series, P).panic
                  /\ AllInPercentRange(calculate_stochastic(series, P).val)
        /\ pc = "calculated" =>
              \A k \in DOMAIN asks :
                  (asks[k].kind = "Stochastic" /\ asks[k].period >= 1) =>
                      AllInPercentRange(indicators.stochastic[Label(asks[k])])

\* calculate() has stored the %K of a period 1 <= P < n over bars with
\* low <= close <= high, a close at the bottom of its look-back range (0.0
\* at a computed index) and a close inside it among them
C25_Witness ==
    /\ pc = "calculated"
    /\ ClosesWithinRange(series)
    /\ \E k \in DOMAIN asks :
          /\ asks[k].kind = "Stochastic"
          /\ asks[k].period >= 1
          /\ asks[k].period < Len(series)
          /\ \E i \in asks[k].period + 1 .. Len(series) :
                /\ indicators.stochastic[Label(asks[k])][i] = 0
                /\ series[i].low < series[i].high
          /\ \E i \in asks[k].period + 1 .. Len(series) :
                /\ indicators.stochastic[Label(asks[k])][i] > 0
                /\ indicators.stochastic[Label(asks[k])][i] < ToF32(100)

\* C26: no run of calculate() violates a length assertion of an algorithm,
\* whatever the series and the parameters of the asks: when calculate() has
\* unwound, the ask it unwound at did not fail an assert!() on the length of
\* its output.
C26_NoLengthAssertionFails ==
    pc = "panicked" => ~Dispatch(series, LastOf(visited)).assertion

\* every data list of the publisher p
DataOf(p) ==
    IF p.kind = "AlphaVantage" THEN p.data_intraday \o p.data_daily \o p.data_wm
    ELSE p.data

\* C22: in every list-holding publisher each stage consumes its input:
\* create_endpoint leaves one endpoint per pending request, in request order,
\* and an empty request list; a get_data that returns Ok leaves an empty
\* endpoint list; transform_data leaves empty data lists, so that a further
\* transform_data would return no series.
C22_StagesConsumeTheirInput ==
    [][/\ invoked'.op = "create_endpoint" =>
             /\ site'.endpoints = Endpoints(site.kind, site.requests)
             /\ site'.requests = << >>
       /\ (invoked'.op = "get_data" /\ returned'.status = "Ok") =>
             site'.endpoints = << >>
       /\ invoked'.op = "transform_data" =>
             /\ DataOf(site') = << >>
             /\ TransformData(site').ret = << >>]_vars

\* the intervals the documentation of Twelvedata::intraday_series lists and
\* Interval can express
TwelvedataDocumented == {"Min1", "Min5", "Min15", "Min30", "Hour1", "Hour2", "Hour4"}

\* C23: Twelvedata::intraday_series called with Min1, Min5, Min15, Min30,
\* Hour1, Hour2 or Hour4 returns Ok and queues exactly one request, for the
\* symbol given and with the interval string of that interval; called with
\* Daily, Weekly or Monthly it returns UnsuportedInterval.
C23_TwelvedataAcceptsDocumentedIntervals ==
    [][(site.kind = "Twelvedata" /\ invoked'.op = "intraday_series"
        /\ queued' = queued + 1) =>
          IF invoked'.interval \in TwelvedataDocumented
          THEN /\ returned'.status = "Ok"
               /\ Len(site'.requests) = Len(site.requests) + 1
               /\ SubSeq(site'.requests, 1, Len(site.requests)) = site.requests
               /\ LastOf(site'.requests).symbol = invoked'.symbol
               /\ IntervalFrom(LastOf(site'.requests).interval) = invoked'.interval
          ELSE returned'.status = "UnsuportedInterval"]_vars

\* every series among the results q carries the interval its request asked
CarryOwnInterval(q) == \A k \in DOMAIN q : q[k].ok => q[k].interval = q[k].asked

\* C27: every MarketSeries YahooFin::transform_data returns carries the
\* interval of the request that produced it, in every round of a reused
\* client (stated for the runs in which no request method returned an error).
C27_YahooSeriesCarryOwnInterval ==
    (site.kind = "YahooFin" /\ invoked.op = "transform_data" /\ rejected = 0) =>
        CarryOwnInterval(returned.series)

\* C28: an intraday_series call that returns UnsuportedInterval leaves the
\* publisher as it was: no request and no interval entry recorded.
C28_RejectedCallLeavesPublisherUnchanged ==
    [][(invoked'.op = "intraday_series" /\ queued' = queued + 1
        /\ returned'.status = "UnsuportedInterval") => site' = site]_vars

\* C29: every MarketSeries Polygon::transform_data returns carries the
\* interval of its own request, also when requests of different intervals
\* were queued before the round.
C29_PolygonSeriesCarryOwnInterval ==
    (site.kind = "Polygon" /\ invoked.op = "transform_data") =>
        CarryOwnInterval(returned.series)

\* C30: the YahooFin request methods queue different interval strings for
\* different intervals: no two pending requests asked with different
\* intervals carry the same string.
C30_YahooStringsDistinct ==
    site.kind = "YahooFin" =>
        \A j \in DOMAIN site.requests, k \in DOMAIN site.requests :
            site.requests[j].asked # site.requests[k].asked =>
                site.requests[j].interval # site.requests[k].interval

====
